---- MODULE Spec2Model ----
(***************************************************************************)
(* The two Sphinx configuration files of solid-client-js, docs/conf.py and *)
(* docs/api/conf.py, modelled as the programs they are: a conf file is     *)
(* executed top to bottom, one statement at a time, into a fresh           *)
(* namespace, and the documentation builder reads the namespace when the   *)
(* last statement has run.  Two loads are modelled side by side so that    *)
(* properties relating two loads of a file can be stated.                  *)
(*                                                                         *)
(* Python values carry their type: a str is a sequence of one-character    *)
(* strings, a dict is the sequence of its <<key, value>> items in          *)
(* insertion order.                                                        *)
(***************************************************************************)
EXTENDS Integers, Sequences, FiniteSets, TLC

VARIABLES file, today, pc, ns, writes, nameLit

vars == <<file, today, pc, ns, writes, nameLit>>

\* The calendar years datetime.date.today().year is drawn from.
MinYear == 2025

MaxYear == 2027

Years == MinYear..MaxYear

\* Two loads of a conf file (two builds of the documentation).
Loads == {1, 2}

Files == {"docs", "api"}

----------------------------------------------------------------------------
\* Python values.

Str(s) == [t |-> "str", v |-> s]

Bool(b) == [t |-> "bool", v |-> b]

Integer(n) == [t |-> "int", v |-> n]

List(xs) == [t |-> "list", v |-> xs]

Tuple(xs) == [t |-> "tuple", v |-> xs]

Dict(items) == [t |-> "dict", v |-> items]

Module(s) == [t |-> "module", v |-> s]

\* A name the namespace does not hold.
Unbound == [t |-> "unbound", v |-> <<>>]

\* The character ` of a str (a TLA+ string cannot hold it).
GraveAccent == "U+0060"

DecimalDigits == <<"0","1","2","3","4","5","6","7","8","9">>

\* str(n) of a non-negative int: its decimal digits, most significant first.
RECURSIVE IntToStr(_)
IntToStr(n) ==
    IF n < 10 THEN <<DecimalDigits[n + 1]>>
    ELSE IntToStr(n \div 10) \o <<DecimalDigits[(n % 10) + 1]>>

\* What a replacement field renders its argument as: str(a).
Render(a) == IF a.t = "int" THEN IntToStr(a.v) ELSE a.v

RECURSIVE FormatChars(_, _)
FormatChars(tpl, a) ==
    IF tpl = <<>> THEN <<>>
    ELSE IF Len(tpl) >= 3 /\ SubSeq(tpl, 1, 3) = <<"{","0","}">>
         THEN Render(a) \o FormatChars(SubSeq(tpl, 4, Len(tpl)), a)
         ELSE <<Head(tpl)>> \o FormatChars(Tail(tpl), a)

\* tpl.format(a): every {0} of tpl replaced by str(a); the text put in for
\* a field is not scanned again.
Format(tpl, a) == Str(FormatChars(tpl, a))

RECURSIVE JoinChars(_, _)
JoinChars(sep, xs) ==
    IF xs = <<>> THEN <<>>
    ELSE IF Len(xs) = 1 THEN xs[1].v
    ELSE xs[1].v \o sep \o JoinChars(sep, Tail(xs))

RECURSIVE JoinTerminated(_, _)
\* Mutant of Join: the separator follows every element, the last included.
JoinTerminated(sep, lst) ==
    IF lst.v = <<>> THEN Str(<<>>)
    ELSE Str(lst.v[1].v \o sep \o JoinTerminated(sep, List(Tail(lst.v))).v)

\* sep.join(lst): the separator goes between elements only.
Join(sep, lst) == Str(JoinChars(sep, lst.v))

\* The keys of a dict, in order.
Keys(d) == [i \in 1..Len(d.v) |-> d.v[i][1]]

\* The values of a dict, in order.
Values(d) == [i \in 1..Len(d.v) |-> d.v[i][2]]

HasKey(d, k) == \E i \in 1..Len(d.v) : d.v[i][1] = k

\* d[k], for a key d holds.
Get(d, k) == d.v[CHOOSE i \in 1..Len(d.v) : d.v[i][1] = k][2]

----------------------------------------------------------------------------
\* docs/conf.py, one definition per assignment, in the order of the file.
\* A definition takes the namespace when its expression reads a name.

docs_copyright == Str(<<"2","0","2","0","-","p","r","e","s","e","n","t",","," ","I","n","r","u","p","t"," ","I","n","c",".">>)

docs_name == Str(<<"s","o","l","i","d","-","c","l","i","e","n","t">>)

docs_repo_name(n) == Format(<<"{","0","}","-","j","s">>, n["name"])

docs_replacement_string(n) == Format(<<".","."," ","|","p","r","o","d","u","c","t","|"," "," ","r","e","p","l","a","c","e",":",":"," ",GraveAccent,GraveAccent,"{","0","}",GraveAccent,GraveAccent>>, n["name"])

docs_rst_epilog(n) == Join(<<"\n">>, List(<<n["replacement_string"]>>))

docs_pygments_style == Str(<<"s","p","h","i","n","x">>)

docs_source_suffix ==
    Dict(<< <<<<".","r","s","t">>, Str(<<"r","e","s","t","r","u","c","t","u","r","e","d","t","e","x","t">>)>>,
            <<<<".","m","d">>, Str(<<"m","a","r","k","d","o","w","n">>)>> >>)

\* from sphinx.highlighting import lexers
docs_lexers == Module(<<"s","p","h","i","n","x",".","h","i","g","h","l","i","g","h","t","i","n","g",".","l","e","x","e","r","s">>)

docs_highlight_language == Str(<<"j","a","v","a","s","c","r","i","p","t">>)

\* Mutant of docs_extensions: the Markdown parser's extension is not listed.
docs_extensions_no_myst ==
    List(<< Str(<<"s","p","h","i","n","x","_","c","o","p","y","b","u","t","t","o","n">>),
            Str(<<"s","p","h","i","n","x",".","e","x","t",".","e","x","t","l","i","n","k","s">>),
            Str(<<"s","p","h","i","n","x","_","t","a","b","s",".","t","a","b","s">>),
            Str(<<"s","p","h","i","n","x",".","e","x","t",".","t","o","d","o">>) >>)

docs_extensions ==
    List(<< Str(<<"s","p","h","i","n","x","_","c","o","p","y","b","u","t","t","o","n">>),
            Str(<<"s","p","h","i","n","x",".","e","x","t",".","e","x","t","l","i","n","k","s">>),
            Str(<<"s","p","h","i","n","x","_","t","a","b","s",".","t","a","b","s">>),
            Str(<<"s","p","h","i","n","x",".","e","x","t",".","t","o","d","o">>),
            Str(<<"m","y","s","t","_","p","a","r","s","e","r">>) >>)

docs_extlinks ==
    Dict(<< <<<<"a","p","i","m","o","d","u","l","e">>, Tuple(<<Str(<<".","/","a","p","i","/","m","o","d","u","l","e">>), Str(<<>>)>>)>> >>)

docs_templates_path == List(<<Str(<<".","/","_","t","e","m","p","l","a","t","e","s">>)>>)

docs_exclude_patterns == List(<<Str(<<".","/","s","o","u","r","c","e","/","r","e","f","e","r","e","n","c","e","/","a","p","i">>)>>)

docs_html_theme == Str(<<"i","n","r","u","p","t">>)

docs_html_theme_path == List(<<Str(<<".","/","t","h","e","m","e","s">>)>>)

docs_html_copy_source == Bool(FALSE)

docs_html_title(n) == Format(<<"I","n","r","u","p","t"," ","{","0","}"," ","D","o","c","u","m","e","n","t","a","t","i","o","n">>, n["name"])

\* Mutant of docs_html_theme_options: the banner switch is the number 1.
docs_html_theme_options_int_banner(n) ==
    Dict(<< <<<<"p","r","o","j","e","c","t","_","t","i","t","l","e">>, Format(<<"I","n","r","u","p","t"," ","{","0","}"," ","D","o","c","u","m","e","n","t","a","t","i","o","n">>, n["name"])>>,
            <<<<"b","a","n","n","e","r">>, Integer(1)>>,
            <<<<"b","a","n","n","e","r","_","m","s","g">>, Str(<<"T","h","i","s"," ","i","s"," ","a"," ","B","e","t","a"," ","(","i",".","e","."," ","i","n"," ","p","r","o","g","r","e","s","s",")"," ","v","e","r","s","i","o","n"," ","o","f"," ","t","h","e"," ","m","a","n","u","a","l","."," ","C","o","n","t","e","n","t"," ","a","n","d"," ","f","e","a","t","u","r","e","s"," ","a","r","e"," ","s","u","b","j","e","c","t"," ","t","o"," ","c","h","a","n","g","e",".">>)>>,
            <<<<"r","o","b","o","t","s","_","i","n","d","e","x">>, Bool(TRUE)>>,
            <<<<"g","i","t","h","u","b","_","e","d","i","t","a","b","l","e">>, Bool(TRUE)>>,
            <<<<"g","i","t","h","u","b","_","o","r","g">>, Str(<<"i","n","r","u","p","t">>)>>,
            <<<<"g","i","t","h","u","b","_","r","e","p","o">>, n["repo_name"]>>,
            <<<<"g","i","t","h","u","b","_","b","r","a","n","c","h">>, Str(<<"m","a","s","t","e","r">>)>>,
            <<<<"e","s","s","_","d","o","c","s">>, Str(<<"h","t","t","p","s",":","/","/","d","o","c","s",".","i","n","r","u","p","t",".","c","o","m","/","e","s","s","/">>)>>,
            <<<<"c","l","i","e","n","t","l","i","b","j","s","_","d","o","c","s">>, Format(<<"h","t","t","p","s",":","/","/","d","o","c","s",".","i","n","r","u","p","t",".","c","o","m","/","c","l","i","e","n","t","-","l","i","b","r","a","r","i","e","s","/","{","0","}","/">>, n["repo_name"])>> >>)

docs_html_theme_options(n) ==
    Dict(<< <<<<"p","r","o","j","e","c","t","_","t","i","t","l","e">>, Format(<<"I","n","r","u","p","t"," ","{","0","}"," ","D","o","c","u","m","e","n","t","a","t","i","o","n">>, n["name"])>>,
            <<<<"b","a","n","n","e","r">>, Bool(TRUE)>>,
            <<<<"b","a","n","n","e","r","_","m","s","g">>, Str(<<"T","h","i","s"," ","i","s"," ","a"," ","B","e","t","a"," ","(","i",".","e","."," ","i","n"," ","p","r","o","g","r","e","s","s",")"," ","v","e","r","s","i","o","n"," ","o","f"," ","t","h","e"," ","m","a","n","u","a","l","."," ","C","o","n","t","e","n","t"," ","a","n","d"," ","f","e","a","t","u","r","e","s"," ","a","r","e"," ","s","u","b","j","e","c","t"," ","t","o"," ","c","h","a","n","g","e",".">>)>>,
            <<<<"r","o","b","o","t","s","_","i","n","d","e","x">>, Bool(TRUE)>>,
            <<<<"g","i","t","h","u","b","_","e","d","i","t","a","b","l","e">>, Bool(TRUE)>>,
            <<<<"g","i","t","h","u","b","_","o","r","g">>, Str(<<"i","n","r","u","p","t">>)>>,
            <<<<"g","i","t","h","u","b","_","r","e","p","o">>, n["repo_name"]>>,
            <<<<"g","i","t","h","u","b","_","b","r","a","n","c","h">>, Str(<<"m","a","s","t","e","r">>)>>,
            <<<<"e","s","s","_","d","o","c","s">>, Str(<<"h","t","t","p","s",":","/","/","d","o","c","s",".","i","n","r","u","p","t",".","c","o","m","/","e","s","s","/">>)>>,
            <<<<"c","l","i","e","n","t","l","i","b","j","s","_","d","o","c","s">>, Format(<<"h","t","t","p","s",":","/","/","d","o","c","s",".","i","n","r","u","p","t",".","c","o","m","/","c","l","i","e","n","t","-","l","i","b","r","a","r","i","e","s","/","{","0","}","/">>, n["repo_name"])>> >>)

\* Mutant of docs_html_static_path: the path is given from the root.
docs_html_static_path_absolute == List(<<Str(<<"/","_","s","t","a","t","i","c">>)>>)

docs_html_static_path == List(<<Str(<<"_","s","t","a","t","i","c">>)>>)

docs_locale_dirs == List(<<Str(<<"l","o","c","a","l","e","/">>)>>)

docs_gettext_compact == Bool(FALSE)

\* Mutant of DocsTargets: the title is assigned to name, not to html_title.
DocsTargetsRebindName ==
    << "copyright", "name", "repo_name", "replacement_string", "rst_epilog",
       "pygments_style", "source_suffix", "lexers", "highlight_language",
       "extensions", "extlinks", "templates_path", "exclude_patterns",
       "html_theme", "html_theme_path", "html_copy_source", "name",
       "html_theme_options", "html_static_path", "locale_dirs",
       "gettext_compact" >>

\* The name each statement of docs/conf.py binds, in the order of the file.
DocsTargets ==
    << "copyright", "name", "repo_name", "replacement_string", "rst_epilog",
       "pygments_style", "source_suffix", "lexers", "highlight_language",
       "extensions", "extlinks", "templates_path", "exclude_patterns",
       "html_theme", "html_theme_path", "html_copy_source", "html_title",
       "html_theme_options", "html_static_path", "locale_dirs",
       "gettext_compact" >>

\* The value statement i of docs/conf.py computes in namespace n; lit is the
\* string literal on the right of "name =".
DocsValue(i, n, lit) ==
    CASE i = 1  -> docs_copyright
      [] i = 2  -> lit
      [] i = 3  -> docs_repo_name(n)
      [] i = 4  -> docs_replacement_string(n)
      [] i = 5  -> docs_rst_epilog(n)
      [] i = 6  -> docs_pygments_style
      [] i = 7  -> docs_source_suffix
      [] i = 8  -> docs_lexers
      [] i = 9  -> docs_highlight_language
      [] i = 10 -> docs_extensions
      [] i = 11 -> docs_extlinks
      [] i = 12 -> docs_templates_path
      [] i = 13 -> docs_exclude_patterns
      [] i = 14 -> docs_html_theme
      [] i = 15 -> docs_html_theme_path
      [] i = 16 -> docs_html_copy_source
      [] i = 17 -> docs_html_title(n)
      [] i = 18 -> docs_html_theme_options(n)
      [] i = 19 -> docs_html_static_path
      [] i = 20 -> docs_locale_dirs
      [] i = 21 -> docs_gettext_compact

----------------------------------------------------------------------------
\* docs/api/conf.py, one definition per statement, in the order of the file.

\* import datetime
api_datetime == Module(<<"d","a","t","e","t","i","m","e">>)

\* Mutant of api_copyright: the year is written with two digits.
api_copyright_short_year(year) == Format(<<"{","0","}"," ","I","n","r","u","p","t"," ","I","n","c",".">>, Integer(year % 100))

\* year is datetime.date.today().year at the time of the load.
api_copyright(year) == Format(<<"{","0","}"," ","I","n","r","u","p","t"," ","I","n","c",".">>, Integer(year))

api_name == Str(<<"s","o","l","i","d","-","c","l","i","e","n","t"," ","A","P","I">>)

api_repo_name(n) == Format(<<"{","0","}","-","j","s">>, n["name"])

api_pygments_style == Str(<<"s","p","h","i","n","x">>)

api_source_suffix ==
    Dict(<< <<<<".","r","s","t">>, Str(<<"r","e","s","t","r","u","c","t","u","r","e","d","t","e","x","t">>)>>,
            <<<<".","m","d">>, Str(<<"m","a","r","k","d","o","w","n">>)>> >>)

\* from sphinx.highlighting import lexers
api_lexers == Module(<<"s","p","h","i","n","x",".","h","i","g","h","l","i","g","h","t","i","n","g",".","l","e","x","e","r","s">>)

api_highlight_language == Str(<<"j","a","v","a","s","c","r","i","p","t">>)

api_extensions ==
    List(<< Str(<<"s","p","h","i","n","x",".","e","x","t",".","e","x","t","l","i","n","k","s">>),
            Str(<<"m","y","s","t","_","p","a","r","s","e","r">>) >>)

api_templates_path == List(<<Str(<<".","/","d","o","c","s","-","a","s","s","e","t","s","/","_","t","e","m","p","l","a","t","e","s">>)>>)

api_exclude_patterns == List(<<>>)

api_html_theme == Str(<<"i","n","r","u","p","t">>)

api_html_theme_path == List(<<Str(<<".","/","d","o","c","s","-","a","s","s","e","t","s","/","t","h","e","m","e","s">>)>>)

api_html_copy_source == Bool(FALSE)

api_html_title(n) == Format(<<"I","n","r","u","p","t"," ","{","0","}"," ","D","o","c","u","m","e","n","t","a","t","i","o","n">>, n["name"])

api_html_theme_options(n) ==
    Dict(<< <<<<"p","r","o","j","e","c","t","_","t","i","t","l","e">>, Format(<<"I","n","r","u","p","t"," ","{","0","}">>, n["name"])>>,
            <<<<"b","a","n","n","e","r">>, Bool(FALSE)>>,
            <<<<"b","a","n","n","e","r","_","m","s","g">>, Str(<<>>)>>,
            <<<<"r","o","b","o","t","s","_","i","n","d","e","x">>, Bool(TRUE)>>,
            <<<<"g","i","t","h","u","b","_","e","d","i","t","a","b","l","e">>, Bool(FALSE)>>,
            <<<<"g","i","t","h","u","b","_","o","r","g">>, Str(<<"i","n","r","u","p","t">>)>>,
            <<<<"g","i","t","h","u","b","_","r","e","p","o">>, n["repo_name"]>>,
            <<<<"g","i","t","h","u","b","_","b","r","a","n","c","h">>, Str(<<"m","a","i","n">>)>>,
            <<<<"d","o","c","s","_","p","r","o","j","e","c","t">>, Str(<<"d","e","v","e","l","o","p","e","r","-","t","o","o","l","s","/","a","p","i","/","j","a","v","a","s","c","r","i","p","t","/","s","o","l","i","d","-","c","l","i","e","n","t">>)>>,
            <<<<"s","h","o","w","_","a","p","i","_","m","e","n","u">>, Bool(TRUE)>>,
            <<<<"f","o","o","t","e","r","_","i","t","e","m","s">>, List(<<Str(<<"c","o","p","y","r","i","g","h","t",".","h","t","m","l">>)>>)>>,
            <<<<"n","a","v","b","a","r","_","a","l","i","g","n">>, Str(<<"l","e","f","t">>)>>,
            <<<<"i","c","o","n","_","l","i","n","k","s">>,
              List(<< Dict(<< <<<<"n","a","m","e">>, Str(<<"S","u","p","p","o","r","t"," ","D","e","s","k">>)>>,
                              <<<<"u","r","l">>, Str(<<"h","t","t","p","s",":","/","/","i","n","r","u","p","t",".","a","t","l","a","s","s","i","a","n",".","n","e","t","/","s","e","r","v","i","c","e","d","e","s","k">>)>>,
                              <<<<"i","c","o","n">>, Str(<<"f","a","s"," ","f","a","-","t","o","o","l","s">>)>> >>),
                      Dict(<< <<<<"n","a","m","e">>, Str(<<"S","o","l","i","d"," ","f","o","r","u","m">>)>>,
                              <<<<"u","r","l">>, Str(<<"h","t","t","p","s",":","/","/","f","o","r","u","m",".","s","o","l","i","d","p","r","o","j","e","c","t",".","o","r","g","/">>)>>,
                              <<<<"i","c","o","n">>, Str(<<"f","a","s"," ","f","a","-","u","s","e","r","s">>)>> >>),
                      Dict(<< <<<<"n","a","m","e">>, Str(<<"I","n","r","u","p","t"," ","B","l","o","g">>)>>,
                              <<<<"u","r","l">>, Str(<<"h","t","t","p","s",":","/","/","i","n","r","u","p","t",".","c","o","m","/","b","l","o","g">>)>>,
                              <<<<"i","c","o","n">>, Str(<<"f","a","s"," ","f","a","-","b","l","o","g">>)>> >>) >>)>>,
            <<<<"f","a","v","i","c","o","n","s">>,
              List(<< Dict(<< <<<<"r","e","l">>, Str(<<"i","c","o","n">>)>>,
                              <<<<"s","i","z","e","s">>, Str(<<"1","6","x","1","6">>)>>,
                              <<<<"h","r","e","f">>, Str(<<"h","t","t","p","s",":","/","/","d","o","c","s",".","i","n","r","u","p","t",".","c","o","m","/","i","n","r","u","p","t","_","s","t","i","c","k","e","r","s","_","v","2","-","0","3",".","p","n","g">>)>> >>) >>)>> >>)

api_html_static_path == List(<<Str(<<".","/","d","o","c","s","-","a","s","s","e","t","s","/","_","s","t","a","t","i","c">>)>>)

api_html_sidebars ==
    Dict(<< <<<<"*","*">>, List(<<Str(<<"s","e","a","r","c","h","-","f","i","e","l","d",".","h","t","m","l">>), Str(<<"d","o","c","s","-","s","i","d","e","b","a","r",".","h","t","m","l">>)>>)>> >>)

api_locale_dirs == List(<<Str(<<"l","o","c","a","l","e","/">>)>>)

api_gettext_compact == Bool(FALSE)

api_myst_heading_anchors == Integer(6)

api_myst_url_schemes == List(<<Str(<<"h","t","t","p","s">>)>>)

\* The name each statement of docs/api/conf.py binds, in the order of the file.
ApiTargets ==
    << "datetime", "copyright", "name", "repo_name", "pygments_style",
       "source_suffix", "lexers", "highlight_language", "extensions",
       "templates_path", "exclude_patterns", "html_theme", "html_theme_path",
       "html_copy_source", "html_title", "html_theme_options",
       "html_static_path", "html_sidebars", "locale_dirs", "gettext_compact",
       "myst_heading_anchors", "myst_url_schemes" >>

\* The value statement i of docs/api/conf.py computes in namespace n, loaded
\* in calendar year year; lit is the string literal on the right of "name =".
ApiValue(i, n, lit, year) ==
    CASE i = 1  -> api_datetime
      [] i = 2  -> api_copyright(year)
      [] i = 3  -> lit
      [] i = 4  -> api_repo_name(n)
      [] i = 5  -> api_pygments_style
      [] i = 6  -> api_source_suffix
      [] i = 7  -> api_lexers
      [] i = 8  -> api_highlight_language
      [] i = 9  -> api_extensions
      [] i = 10 -> api_templates_path
      [] i = 11 -> api_exclude_patterns
      [] i = 12 -> api_html_theme
      [] i = 13 -> api_html_theme_path
      [] i = 14 -> api_html_copy_source
      [] i = 15 -> api_html_title(n)
      [] i = 16 -> api_html_theme_options(n)
      [] i = 17 -> api_html_static_path
      [] i = 18 -> api_html_sidebars
      [] i = 19 -> api_locale_dirs
      [] i = 20 -> api_gettext_compact
      [] i = 21 -> api_myst_heading_anchors
      [] i = 22 -> api_myst_url_schemes

----------------------------------------------------------------------------
\* Loading.

\* Every name either file binds.
Ids == {DocsTargets[i] : i \in 1..Len(DocsTargets)}
           \cup {ApiTargets[i] : i \in 1..Len(ApiTargets)}

Targets(f) == IF f = "docs" THEN DocsTargets ELSE ApiTargets

\* The string literal each file gives name.
NameLiteral(f) == IF f = "docs" THEN docs_name ELSE api_name

\* Literals tried in place of it where a claim speaks of every value of name.
Names ==
    { docs_name, api_name, Str(<<>>), Str(<<"{","0","}">>) }

EmptyNamespace == [id \in Ids |-> Unbound]

InitLoads ==
    /\ file \in [Loads -> Files]
    /\ today \in [Loads -> Years]
    /\ pc = [l \in Loads |-> 1]
    /\ ns = [l \in Loads |-> EmptyNamespace]
    /\ writes = [l \in Loads |-> [id \in Ids |-> 0]]

\* Each load is handed a conf file and runs in some calendar year; its
\* namespace is empty and its first statement is next.
Init ==
    /\ InitLoads
    /\ nameLit = [f \in Files |-> NameLiteral(f)]

\* The same, with the literal of name drawn from Names.
InitNames ==
    /\ InitLoads
    /\ \E lit \in Names : nameLit = [f \in Files |-> lit]

\* id = val, executed by load l.
Bind(l, id, val) ==
    /\ ns' = [ns EXCEPT ![l][id] = val]
    /\ writes' = [writes EXCEPT ![l][id] = @ + 1]
    /\ pc' = [pc EXCEPT ![l] = @ + 1]
    /\ UNCHANGED <<file, today, nameLit>>

\* Load l executes the next statement of docs/conf.py.
ExecDocs(l) ==
    /\ file[l] = "docs"
    /\ pc[l] <= Len(DocsTargets)
    /\ Bind(l, DocsTargets[pc[l]], DocsValue(pc[l], ns[l], nameLit["docs"]))

\* Load l executes the next statement of docs/api/conf.py.
ExecApi(l) ==
    /\ file[l] = "api"
    /\ pc[l] <= Len(ApiTargets)
    /\ Bind(l, ApiTargets[pc[l]], ApiValue(pc[l], ns[l], nameLit["api"], today[l]))

Next == \E l \in Loads : ExecDocs(l) \/ ExecApi(l)

Spec == Init /\ [][Next]_vars

SpecNames == InitNames /\ [][Next]_vars

\* The last statement of load l's file has run: the builder reads ns[l].
Loaded(l) == pc[l] > Len(Targets(file[l]))

Bound(l, id) == ns[l][id].t # "unbound"

----------------------------------------------------------------------------
\* Shapes of values, for the properties below.

IsStr(x) == x.t = "str"

IsStrOrBool(x) == x.t \in {"str", "bool"}

IsDict(x) == x.t = "dict"

\* A dict none of whose values is a container or a number.
FlatStrBool(d) == IsDict(d) /\ \A i \in 1..Len(d.v) : IsStrOrBool(d.v[i][2])

\* A dict whose every value is a str.
FlatStr(d) == IsDict(d) /\ \A i \in 1..Len(d.v) : IsStr(d.v[i][2])

\* A list whose every entry is a str.
StrList(x) == x.t = "list" /\ \A i \in 1..Len(x.v) : IsStr(x.v[i])

\* A list whose every entry is a str or a dict of strs.
StrOrFlatDictList(x) ==
    x.t = "list" /\ \A i \in 1..Len(x.v) : IsStr(x.v[i]) \/ FlatStr(x.v[i])

\* A tuple of two strs.
StrPair(x) == x.t = "tuple" /\ Len(x.v) = 2 /\ IsStr(x.v[1]) /\ IsStr(x.v[2])

OptionDicts == {"source_suffix", "extlinks", "html_theme_options", "html_sidebars"}

PathLists == {"templates_path", "html_theme_path", "html_static_path", "locale_dirs"}

\* The keys of docs/api/conf.py's html_theme_options that hold lists.
ListOptions == {<<"f","o","o","t","e","r","_","i","t","e","m","s">>, <<"i","c","o","n","_","l","i","n","k","s">>, <<"f","a","v","i","c","o","n","s">>}

Whitespace == {" ", "\t", "\n", "\r", "\f"}

\* Some load of file f has run to its end.
SomeLoaded(f) == \E l \in Loads : file[l] = f /\ Loaded(l)

----------------------------------------------------------------------------
\* C1 (as stated): in both conf files every option dictionary (source_suffix,
\* extlinks, html_theme_options, html_sidebars) is a flat mapping whose every
\* value is a string or a boolean.
C1_OptionDictsFlat ==
    \A l \in Loads : \A id \in OptionDicts :
        Bound(l, id) => FlatStrBool(ns[l][id])

\* C1 (amended): source_suffix is a flat mapping to strings in both files and
\* html_theme_options of docs/conf.py is a flat mapping to strings and
\* booleans; the values of extlinks are pairs of strings, the values of
\* html_sidebars are lists of strings, and html_theme_options of
\* docs/api/conf.py maps footer_items, icon_links and favicons to lists (of
\* strings or of flat string-valued dictionaries) and every other key to a
\* string or a boolean.  No value of these dictionaries is a number.
C1_OptionDictShapes ==
    \A l \in Loads :
        /\ Bound(l, "source_suffix") => FlatStr(ns[l]["source_suffix"])
        /\ Bound(l, "extlinks") =>
              /\ IsDict(ns[l]["extlinks"])
              /\ \A i \in 1..Len(ns[l]["extlinks"].v) :
                    StrPair(ns[l]["extlinks"].v[i][2])
        /\ Bound(l, "html_sidebars") =>
              /\ IsDict(ns[l]["html_sidebars"])
              /\ \A i \in 1..Len(ns[l]["html_sidebars"].v) :
                    StrList(ns[l]["html_sidebars"].v[i][2])
        /\ (file[l] = "docs" /\ Bound(l, "html_theme_options")) =>
              FlatStrBool(ns[l]["html_theme_options"])
        /\ (file[l] = "api" /\ Bound(l, "html_theme_options")) =>
              /\ IsDict(ns[l]["html_theme_options"])
              /\ \A i \in 1..Len(ns[l]["html_theme_options"].v) :
                    LET item == ns[l]["html_theme_options"].v[i] IN
                    IF item[1] \in ListOptions
                    THEN StrOrFlatDictList(item[2])
                    ELSE IsStrOrBool(item[2])

\* Both files have been loaded to the end, every option dictionary built.
C1_Witness ==
    /\ SomeLoaded("docs") /\ SomeLoaded("api")
    /\ \A l \in Loads : \A id \in OptionDicts \ {"extlinks", "html_sidebars"} :
          Bound(l, id)
    /\ \E l \in Loads : Bound(l, "extlinks")
    /\ \E l \in Loads : Bound(l, "html_sidebars")

----------------------------------------------------------------------------
\* C2 (as stated): for any two loads of the same conf file, on any two
\* calendar dates, every top-level identifier (copyright included) ends with
\* the same value in both loads.
C2_LoadsAgree ==
    \A l1 \in Loads : \A l2 \in Loads :
        (Loaded(l1) /\ Loaded(l2) /\ file[l1] = file[l2]) =>
            \A id \in Ids : ns[l1][id] = ns[l2][id]

\* The four decimal digits of a year from 1000 to 9999.
YearDigits(y) ==
    << DecimalDigits[(y \div 1000) + 1], DecimalDigits[((y \div 100) % 10) + 1],
       DecimalDigits[((y \div 10) % 10) + 1], DecimalDigits[(y % 10) + 1] >>

\* C2 (amended): for any two loads of the same conf file every top-level
\* identifier ends with the same value in both loads, except copyright of
\* docs/api/conf.py, which is the year of the load's date followed by
\* ' Inrupt Inc.' and so is the same in two loads only when they run in the
\* same calendar year.
C2_LoadsAgreeButApiCopyright ==
    /\ \A l1 \in Loads : \A l2 \in Loads :
          (Loaded(l1) /\ Loaded(l2) /\ file[l1] = file[l2]) =>
              \A id \in Ids :
                  (id # "copyright" \/ file[l1] = "docs" \/ today[l1] = today[l2])
                      => ns[l1][id] = ns[l2][id]
    /\ \A l \in Loads :
          (file[l] = "api" /\ Bound(l, "copyright")) =>
              ns[l]["copyright"] = Str(YearDigits(today[l]) \o <<" ","I","n","r","u","p","t"," ","I","n","c",".">>)

\* Two loads of docs/api/conf.py in different calendar years have run to
\* the end.
C2_Witness ==
    /\ \A l \in Loads : file[l] = "api" /\ Loaded(l)
    /\ today[1] # today[2]

----------------------------------------------------------------------------
\* C3: while a conf file is loaded statement by statement, each top-level
\* identifier is assigned at most once, and once an identifier is assigned no
\* later statement changes its value.
C3_AssignedOnce ==
    [][\A l \in Loads : \A id \in Ids :
          /\ writes'[l][id] <= 1
          /\ Bound(l, id) => ns'[l][id] = ns[l][id]]_vars

\* Both files have been loaded to the end, every statement having bound its
\* name.
C3_Witness ==
    /\ SomeLoaded("docs") /\ SomeLoaded("api")
    /\ \A l \in Loads : \A i \in 1..Len(Targets(file[l])) :
          writes[l][Targets(file[l])[i]] = 1

----------------------------------------------------------------------------
\* C4: in both conf files each of templates_path, html_theme_path,
\* html_static_path and locale_dirs is a non-empty list, and every entry of
\* every one of them is a non-empty relative path (it does not start with '/').
C4_PathListsRelative ==
    \A l \in Loads : \A id \in PathLists :
        Bound(l, id) =>
            /\ ns[l][id].t = "list"
            /\ Len(ns[l][id].v) >= 1
            /\ \A i \in 1..Len(ns[l][id].v) :
                  /\ IsStr(ns[l][id].v[i])
                  /\ ns[l][id].v[i].v # <<>>
                  /\ Head(ns[l][id].v[i].v) # "/"

\* Both files have been loaded to the end, all four path lists built.
C4_Witness ==
    /\ SomeLoaded("docs") /\ SomeLoaded("api")
    /\ \A l \in Loads : \A id \in PathLists : Bound(l, id)

----------------------------------------------------------------------------
\* C5: in both conf files source_suffix registers '.txt' instead of '.rst'
\* for reStructuredText: '.txt' is a key mapped to 'restructuredtext' and
\* '.rst' is not a key.
C5_TxtNotRst ==
    \A l \in Loads :
        Bound(l, "source_suffix") =>
            /\ HasKey(ns[l]["source_suffix"], <<".","t","x","t">>)
            /\ Get(ns[l]["source_suffix"], <<".","t","x","t">>) = Str(<<"r","e","s","t","r","u","c","t","u","r","e","d","t","e","x","t">>)
            /\ ~HasKey(ns[l]["source_suffix"], <<".","r","s","t">>)

----------------------------------------------------------------------------
\* C6: in both conf files the theme options github_org and github_repo name
\* the repository inrupt/solid-client-js: github_org is 'inrupt', github_repo
\* is 'solid-client-js', and github_repo holds no whitespace character.
C6_GithubRepository ==
    \A l \in Loads :
        Bound(l, "html_theme_options") =>
            LET org == Get(ns[l]["html_theme_options"], <<"g","i","t","h","u","b","_","o","r","g">>)
                repo == Get(ns[l]["html_theme_options"], <<"g","i","t","h","u","b","_","r","e","p","o">>)
            IN  /\ org = Str(<<"i","n","r","u","p","t">>)
                /\ repo = Str(<<"s","o","l","i","d","-","c","l","i","e","n","t","-","j","s">>)
                /\ \A i \in 1..Len(repo.v) : repo.v[i] \notin Whitespace

----------------------------------------------------------------------------
\* C7: in each conf file, for every value name can hold, repo_name is name
\* followed by '-js', html_title is 'Inrupt ' followed by name followed by
\* ' Documentation' and html_theme_options['github_repo'] is repo_name; in
\* docs/conf.py also html_theme_options['project_title'] is html_title and
\* rst_epilog is '.. |product|  replace:: ``' followed by name followed by
\* '``', the join of the one-element list adding no newline.
C7_DerivedStrings ==
    \A l \in Loads :
        LET n == ns[l] IN
        /\ Bound(l, "repo_name") =>
              n["repo_name"] = Str(n["name"].v \o <<"-","j","s">>)
        /\ Bound(l, "html_title") =>
              n["html_title"] = Str(<<"I","n","r","u","p","t"," ">> \o n["name"].v \o <<" ","D","o","c","u","m","e","n","t","a","t","i","o","n">>)
        /\ Bound(l, "html_theme_options") =>
              Get(n["html_theme_options"], <<"g","i","t","h","u","b","_","r","e","p","o">>) = n["repo_name"]
        /\ (file[l] = "docs" /\ Bound(l, "html_theme_options")) =>
              Get(n["html_theme_options"], <<"p","r","o","j","e","c","t","_","t","i","t","l","e">>) = n["html_title"]
        /\ (file[l] = "docs" /\ Bound(l, "rst_epilog")) =>
              n["rst_epilog"] =
                  Str(<<".","."," ","|","p","r","o","d","u","c","t","|"," "," ","r","e","p","l","a","c","e",":",":"," ",GraveAccent,GraveAccent>> \o n["name"].v \o <<GraveAccent,GraveAccent>>)

\* Both files have been loaded to the end with a name that is not the one
\* the files give, here one that itself reads as a replacement field.
C7_Witness ==
    /\ SomeLoaded("docs") /\ SomeLoaded("api")
    /\ \A l \in Loads : Bound(l, "name") /\ ns[l]["name"] = Str(<<"{","0","}">>)
    /\ \E l \in Loads : Bound(l, "rst_epilog")

----------------------------------------------------------------------------
\* C8: in both conf files every parser source_suffix refers to is provided by
\* a listed extension: whenever source_suffix maps a suffix to 'markdown',
\* 'myst_parser' is an entry of extensions; and no entry occurs twice in
\* extensions.
C8_ParsersListed ==
    \A l \in Loads :
        (Bound(l, "source_suffix") /\ Bound(l, "extensions")) =>
            LET suffix == ns[l]["source_suffix"]
                ext == ns[l]["extensions"].v
            IN  /\ (\E i \in 1..Len(suffix.v) : suffix.v[i][2] = Str(<<"m","a","r","k","d","o","w","n">>))
                      => \E j \in 1..Len(ext) : ext[j] = Str(<<"m","y","s","t","_","p","a","r","s","e","r">>)
                /\ \A j \in 1..Len(ext) : \A k \in 1..Len(ext) :
                      ext[j] = ext[k] => j = k

\* Both files have been loaded to the end and each maps a suffix to
\* 'markdown'.
C8_Witness ==
    /\ SomeLoaded("docs") /\ SomeLoaded("api")
    /\ \A l \in Loads :
          /\ Bound(l, "extensions")
          /\ HasKey(ns[l]["source_suffix"], <<".","m","d">>)
          /\ Get(ns[l]["source_suffix"], <<".","m","d">>) = Str(<<"m","a","r","k","d","o","w","n">>)

====
